---------------------------- MODULE Spec2Model ----------------------------
(***************************************************************************)
(* ForwardList<T>: the singly-linked list of the repository, in its three  *)
(* source variants:                                                        *)
(*   "main"  src/main.cpp           unique_ptr chain, remove erases all     *)
(*   "p0"    src/unnamed/part_000   raw-pointer chain, remove erases all    *)
(*   "p1"    src/unnamed/part_001   unique_ptr chain, remove erases first   *)
(* The heap is a finite set of node addresses; two list objects A and B    *)
(* live on it.  Every action is one public member function, run to its end. *)
(***************************************************************************)
EXTENDS Integers, Sequences, FiniteSets, TLC

\* ----------------------------------------------------------------- bounds
\* Node addresses the allocator can hand out (available memory).
MaxNodes == 4

\* Element values are 1..MaxVal.
MaxVal == 2

NULL == 0

Addr == 1..MaxNodes

Val == 1..MaxVal

Lists == {"A", "B"}

Variants == {"main", "p0", "p1"}

VARIABLES
    variant,   \* which source file's ForwardList is running
    live,      \* live[l]: the object l is constructed and not yet destroyed
    head,      \* head[l]: head_ (NULL or a node address)
    tail,      \* tail[l]: tail_ (NULL or a node address)
    next,      \* next[n]: Node::next of node n
    data,      \* data[n]: Node::data of node n
    alive,     \* the nodes allocated and not yet deleted
    brk,       \* the number of nodes allocated so far
    pushed,    \* pushed[l]: the values pushed onto l while only push_back ran on it
    last       \* the last member function called, its arguments and its result

vars == <<variant, live, head, tail, next, data, alive, brk, pushed, last>>

\* ------------------------------------------------------------- the heap
\* The program state an operation reads and rewrites, as one record.  During
\* a call it also notes two events, both false when the call starts:
\* dbl: delete was applied to a node that had been deleted already;
\* uaf: the storage of a deleted node was read.
Cur == [live |-> live, head |-> head, tail |-> tail, next |-> next,
        data |-> data, alive |-> alive, brk |-> brk,
        dbl |-> FALSE, uaf |-> FALSE]

\* new Node(v) / std::make_unique<Node>(v): the allocator hands out addresses
\* in increasing order and gives none out twice, so an address names one node
\* for the whole run; it is out of memory after MaxNodes nodes.  The node
\* starts with next = nullptr.
NewAddr(h) == h.brk + 1

CanAlloc(h) == h.brk < MaxNodes

NewNode(h, v) ==
    LET n == NewAddr(h)
    IN  [h EXCEPT !.alive = @ \cup {n}, !.brk = n, !.data[n] = v, !.next[n] = NULL]

\* delete n: the node's storage goes back to the allocator.  What it held is
\* gone; reads of it are modelled where they happen (see Matches).
DeleteNode(h, n) ==
    [h EXCEPT !.alive = @ \ {n}, !.data[n] = 0, !.next[n] = NULL,
              !.dbl = @ \/ n \notin h.alive]

\* ------------------------------------------------------- append / push_back
\* append_node with a slip: the new node is linked but tail_ is not advanced.
append_node_keeps_tail(h, l, n) ==
    IF h.head[l] = NULL
    THEN [h EXCEPT !.head[l] = n, !.tail[l] = n]
    ELSE [h EXCEPT !.next[h.tail[l]] = n]

\* append_node with a slip: tail_ is advanced before the link is written, so
\* the link lands in the new node and the old tail keeps its null next.
append_node_tail_first(h, l, n) ==
    IF h.head[l] = NULL
    THEN [h EXCEPT !.head[l] = n, !.tail[l] = n]
    ELSE [h EXCEPT !.tail[l] = n, !.next[n] = n]

\* append_node (main.cpp, part_001) and append (part_000): link n after the
\* tail, or make it head and tail of an empty list.
append_node(h, l, n) ==
    IF h.head[l] = NULL
    THEN [h EXCEPT !.head[l] = n, !.tail[l] = n]
    ELSE [h EXCEPT !.next[h.tail[l]] = n, !.tail[l] = n]

\* push_back(value): allocate the node, then append it.  Called only when the
\* allocation succeeds; a failed allocation throws before anything is linked.
push_back(h, l, v) == append_node(NewNode(h, v), l, NewAddr(h))

\* A call of push_back with a slip: tail_ is given up before the node is
\* allocated, so a failed allocation leaves the list without its tail_.
call_push_back_unlinks_first(h, l, v, ok) ==
    IF ok /\ CanAlloc(h)
    THEN [h |-> push_back(h, l, v), threw |-> FALSE]
    ELSE [h |-> [h EXCEPT !.tail[l] = NULL], threw |-> TRUE]

\* A call of push_back(value): std::make_unique<Node>(value) / new Node(v) is
\* evaluated first, as the argument of append_node; when it throws bad_alloc
\* (ok is false, or the heap is exhausted) append_node is never entered.
call_push_back(h, l, v, ok) ==
    IF ok /\ CanAlloc(h)
    THEN [h |-> push_back(h, l, v), threw |-> FALSE]
    ELSE [h |-> h, threw |-> TRUE]

\* ---------------------------------------------------------------- iterators
begin(h, l) == h.head[l]

end == NULL

\* basic_iterator(): node_{nullptr}.
default_iterator == NULL

\* operator==(a, b): a.node_ == b.node_.
iter_eq(a, b) == a = b

\* operator*: the data of the node the iterator denotes.
deref(h, it) == h.data[it]

\* operator++ with a slip: it does not step off the last node.
incr_stays_on_last(h, it) ==
    IF it = NULL THEN NULL
    ELSE IF h.next[it] = NULL THEN it
    ELSE h.next[it]

\* operator++: main.cpp and part_001 follow next unconditionally (the caller
\* must not be at the end); part_000 guards the end position.
incr(h, it) ==
    IF variant = "p0"
    THEN (IF it # NULL THEN h.next[it] ELSE NULL)
    ELSE h.next[it]

\* for (auto& v : list): the nodes visited from begin() until end().  The walk
\* is cut after MaxNodes + 1 nodes, which only a cyclic chain reaches.
RECURSIVE RangeFor(_, _, _)
RangeFor(h, it, fuel) ==
    IF it = end \/ fuel = 0
    THEN << >>
    ELSE <<it>> \o RangeFor(h, incr(h, it), fuel - 1)

Chain(h, l) == RangeFor(h, begin(h, l), MaxNodes + 1)

\* What iterating l yields: the values in visiting order.
Contents(h, l) ==
    LET c == Chain(h, l)
    IN  [i \in DOMAIN c |-> deref(h, c[i])]

Nodes(h, l) ==
    LET c == Chain(h, l)
    IN  {c[i] : i \in DOMAIN c}

\* The scan with a slip: it stops at the last node without comparing it.
RECURSIVE ContainsFrom_stops_at_last(_, _, _, _)
ContainsFrom_stops_at_last(h, it, v, fuel) ==
    IF it = end \/ fuel = 0 THEN FALSE
    ELSE IF h.next[it] = NULL THEN FALSE
    ELSE IF deref(h, it) = v THEN TRUE
    ELSE ContainsFrom_stops_at_last(h, incr(h, it), v, fuel - 1)

\* contains(value) of main.cpp and part_001: linear scan, true at the first hit.
RECURSIVE ContainsFrom(_, _, _, _)
ContainsFrom(h, it, v, fuel) ==
    IF it = end \/ fuel = 0 THEN FALSE
    ELSE IF deref(h, it) = v THEN TRUE
    ELSE ContainsFrom(h, incr(h, it), v, fuel - 1)

contains(h, l, v) == ContainsFrom(h, begin(h, l), v, MaxNodes + 1)

\* -------------------------------------------------------------------- clear
\* ~unique_ptr<Node>: deleting a node destroys its next member first, which
\* deletes the rest of the chain (recursive teardown).
RECURSIVE DestroyChain(_, _)
DestroyChain(h, n) ==
    IF n = NULL
    THEN h
    ELSE DeleteNode(DestroyChain(h, h.next[n]), n)

\* clear() with a slip: tail_ is not reset.
clear_uptr_keeps_tail(h, l) ==
    DestroyChain([h EXCEPT !.head[l] = NULL], h.head[l])

\* clear() of main.cpp and part_001: head_.reset(); tail_ = nullptr.
clear_uptr(h, l) ==
    [DestroyChain([h EXCEPT !.head[l] = NULL], h.head[l]) EXCEPT !.tail[l] = NULL]

\* clear() of part_000: pop and delete the head until none is left.
RECURSIVE clear_loop(_, _)
clear_loop(h, l) ==
    IF h.head[l] = NULL
    THEN h
    ELSE LET t == h.head[l]
         IN  clear_loop(DeleteNode([h EXCEPT !.head[l] = h.next[t]], t), l)

clear_p0(h, l) == [clear_loop(h, l) EXCEPT !.tail[l] = NULL]

clear(h, l) == IF variant = "p0" THEN clear_p0(h, l) ELSE clear_uptr(h, l)

\* ------------------------------------------------------------------- remove
\* The argument of remove(const T& value) is a reference.  A caller's own
\* object is ByValue(v).  remove(iterator) passes *pos, a reference into the
\* node pos denotes: ByRef(pos, junk).  Once that node is deleted the
\* reference dangles and each later read of it yields whatever the freed
\* storage holds: junk is the set of nodes whose comparison with that storage
\* comes out equal.
ByValue(v) == [ref |-> NULL, val |-> v, junk |-> {}]

ByRef(pos, junk) == [ref |-> pos, val |-> 0, junk |-> junk]

\* node->data == value
Matches(h, n, arg) ==
    IF arg.ref = NULL THEN h.data[n] = arg.val
    ELSE IF arg.ref \in h.alive THEN h.data[n] = h.data[arg.ref]
    ELSE n \in arg.junk

\* Evaluating node->data == value reads the object value refers to: storage
\* of a deleted node when the reference is into a node deleted by now.
Read(h, arg) ==
    [h EXCEPT !.uaf = @ \/ (arg.ref # NULL /\ arg.ref \notin h.alive)]

\* while (head_ && head_->data == value): the comparison is evaluated only
\* with a head node to compare.
ReadAtHead(h, l, arg) == IF h.head[l] # NULL THEN Read(h, arg) ELSE h

\* Step 1 with a slip: erased is not set when a head node is dropped.
RECURSIVE head_loop_forgets(_, _, _, _)
head_loop_forgets(h, l, arg, erased) ==
    LET h0 == ReadAtHead(h, l, arg)
    IN  IF h0.head[l] # NULL /\ Matches(h0, h0.head[l], arg)
        THEN LET t == h0.head[l]
             IN  head_loop_forgets(
                     DeleteNode([h0 EXCEPT !.head[l] = h0.next[t]], t),
                     l, arg, erased)
        ELSE [h |-> h0, erased |-> erased]

\* Step 1 of remove in main.cpp and part_000: drop matching nodes at the head.
RECURSIVE head_loop(_, _, _, _)
head_loop(h, l, arg, erased) ==
    LET h0 == ReadAtHead(h, l, arg)
    IN  IF h0.head[l] # NULL /\ Matches(h0, h0.head[l], arg)
        THEN LET t == h0.head[l]
             IN  head_loop(DeleteNode([h0 EXCEPT !.head[l] = h0.next[t]], t),
                           l, arg, TRUE)
        ELSE [h |-> h0, erased |-> erased]

\* remove of main.cpp with a slip: tail_ is not set after the walk.
tail_after_walk_skipped(h, l, prev) == h

\* main.cpp line 103: after the walk, prev is the last surviving node.
tail_after_walk(h, l, prev) == [h EXCEPT !.tail[l] = prev]

\* The walk with a slip: after unlinking curr, prev advances to the node
\* behind it, which is then never compared.
RECURSIVE walk_main_advancing(_, _, _, _, _)
walk_main_advancing(h, arg, prev, curr, erased) ==
    IF curr = NULL
    THEN [h |-> h, prev |-> prev, erased |-> erased]
    ELSE LET h0 == Read(h, arg)
         IN  IF Matches(h0, curr, arg)
             THEN LET nx == h0.next[curr]
                      h1 == DeleteNode([h0 EXCEPT !.next[prev] = nx], curr)
                  IN  IF nx = NULL
                      THEN [h |-> h1, prev |-> prev, erased |-> TRUE]
                      ELSE walk_main_advancing(h1, arg, nx, h1.next[nx], TRUE)
             ELSE walk_main_advancing(h0, arg, curr, h0.next[curr], erased)

\* Step 2 of remove in main.cpp: walk the rest with prev/curr; prev does not
\* advance when curr is unlinked.
RECURSIVE walk_main(_, _, _, _, _)
walk_main(h, arg, prev, curr, erased) ==
    IF curr = NULL
    THEN [h |-> h, prev |-> prev, erased |-> erased]
    ELSE LET h0 == Read(h, arg)
         IN  IF Matches(h0, curr, arg)
             THEN LET nx == h0.next[curr]
                  IN  walk_main(DeleteNode([h0 EXCEPT !.next[prev] = nx], curr),
                                arg, prev, nx, TRUE)
             ELSE walk_main(h0, arg, curr, h0.next[curr], erased)

remove_main(h, l, arg) ==
    LET s1 == head_loop(h, l, arg, FALSE)
    IN  IF s1.h.head[l] = NULL
        THEN [h |-> [s1.h EXCEPT !.tail[l] = NULL], ret |-> s1.erased]
        ELSE LET p0 == s1.h.head[l]
                 s2 == walk_main(s1.h, arg, p0, s1.h.next[p0], s1.erased)
             IN  [h |-> tail_after_walk(s2.h, l, s2.prev), ret |-> s2.erased]

\* remove of part_000 with a slip: tail_ is not moved off the erased node.
tail_on_erase_skipped(h, l, prev, cur) == h

\* part_000 line 73: if (cur == tail_) tail_ = prev, before cur is deleted.
tail_on_erase(h, l, prev, cur) ==
    IF cur = h.tail[l] THEN [h EXCEPT !.tail[l] = prev] ELSE h

\* Step 2 of remove in part_000.
RECURSIVE walk_p0(_, _, _, _, _, _)
walk_p0(h, l, arg, prev, cur, erased) ==
    IF cur = NULL
    THEN [h |-> h, erased |-> erased]
    ELSE LET h0 == Read(h, arg)
         IN  IF Matches(h0, cur, arg)
             THEN LET nx == h0.next[cur]
                      h1 == tail_on_erase([h0 EXCEPT !.next[prev] = nx], l, prev, cur)
                  IN  walk_p0(DeleteNode(h1, cur), l, arg, prev, nx, TRUE)
             ELSE walk_p0(h0, l, arg, cur, h0.next[cur], erased)

remove_p0(h, l, arg) ==
    LET s1 == head_loop(h, l, arg, FALSE)
    IN  IF s1.h.head[l] = NULL
        THEN [h |-> [s1.h EXCEPT !.tail[l] = NULL], ret |-> s1.erased]
        ELSE LET p0 == s1.h.head[l]
                 s2 == walk_p0(s1.h, l, arg, p0, s1.h.next[p0], s1.erased)
             IN  [h |-> s2.h, ret |-> s2.erased]

\* remove of part_001: unlink the first matching node and return at once.
RECURSIVE walk_p1(_, _, _, _, _)
walk_p1(h, l, arg, prev, curr) ==
    IF curr = NULL
    THEN [h |-> h, ret |-> FALSE]
    ELSE LET h0 == Read(h, arg)
         IN  IF Matches(h0, curr, arg)
             THEN LET nx == h0.next[curr]
                  IN  IF prev # NULL
                      THEN [h |-> DeleteNode(
                                    [h0 EXCEPT !.next[prev] = nx,
                                               !.tail[l] = IF nx = NULL THEN prev ELSE @],
                                    curr),
                            ret |-> TRUE]
                      ELSE [h |-> DeleteNode(
                                    [h0 EXCEPT !.head[l] = nx,
                                               !.tail[l] = IF nx = NULL THEN NULL ELSE @],
                                    curr),
                            ret |-> TRUE]
             ELSE walk_p1(h0, l, arg, curr, h0.next[curr])

remove_p1(h, l, arg) == walk_p1(h, l, arg, NULL, h.head[l])

\* remove(const T& value) of the running variant.
remove(h, l, arg) ==
    CASE variant = "main" -> remove_main(h, l, arg)
      [] variant = "p0"   -> remove_p0(h, l, arg)
      [] variant = "p1"   -> remove_p1(h, l, arg)

\* remove(iterator pos) of main.cpp and part_000: false at end(), else
\* remove(*pos) with the reference operator* returns.
remove_at(h, l, pos, junk) ==
    IF pos = end
    THEN [h |-> h, ret |-> FALSE]
    ELSE remove(h, l, ByRef(pos, junk))

\* ------------------------------------------------------------ copy and move
\* The copy with a slip: dst takes over the source's nodes instead of
\* allocating its own.
copy_loop_shallow(h, dst, it, budget) ==
    [h |-> [h EXCEPT !.head[dst] = it,
                     !.tail[dst] = IF it = NULL THEN NULL ELSE it],
     threw |-> FALSE]

\* for (const auto& v : other) push_back(v): budget is the number of
\* allocations that still succeed; the loop stops with bad_alloc at the first
\* one that fails.
RECURSIVE copy_loop(_, _, _, _)
copy_loop(h, dst, it, budget) ==
    IF it = end
    THEN [h |-> h, threw |-> FALSE]
    ELSE IF budget = 0 \/ ~CanAlloc(h)
         THEN [h |-> h, threw |-> TRUE]
         ELSE LET h1 == push_back(h, dst, deref(h, it))
              IN  copy_loop(h1, dst, incr(h1, it), budget - 1)

\* An exception leaving a constructor: the object never comes to exist.  Its
\* members are destroyed, so a unique_ptr head_ deletes the nodes pushed so
\* far; a raw head_ (part_000) deletes nothing and ~ForwardList does not run.
abandon(h, dst) ==
    LET h1 == IF variant = "p0" THEN h ELSE DestroyChain(h, h.head[dst])
    IN  [h1 EXCEPT !.head[dst] = NULL, !.tail[dst] = NULL, !.live[dst] = FALSE]

\* ForwardList(const ForwardList& other)
copy_construct(h, dst, src, budget) ==
    LET h0 == [h EXCEPT !.live[dst] = TRUE, !.head[dst] = NULL, !.tail[dst] = NULL]
        r  == copy_loop(h0, dst, begin(h0, src), budget)
    IN  IF r.threw THEN [h |-> abandon(r.h, dst), threw |-> TRUE] ELSE r

\* Copy assignment with a slip: no this != &other test, so a self-assignment
\* clears the list and then copies the emptied list onto itself.
copy_assign_unguarded(h, dst, src, budget) ==
    LET h0 == clear(h, dst)
    IN  copy_loop(h0, dst, begin(h0, src), budget)

\* operator=(const ForwardList& other)
copy_assign(h, dst, src, budget) ==
    IF dst # src
    THEN LET h0 == clear(h, dst)
         IN  copy_loop(h0, dst, begin(h0, src), budget)
    ELSE [h |-> h, threw |-> FALSE]

\* ForwardList(ForwardList&&): defaulted in main.cpp and part_001 (head_ is
\* moved from, the raw tail_ is copied and stays in the source); written out
\* in part_000, which nulls both pointers of the source.
move_construct(h, dst, src) ==
    LET h0 == [h EXCEPT !.live[dst] = TRUE,
                        !.head[dst] = h.head[src], !.tail[dst] = h.tail[src]]
    IN  IF variant = "p0"
        THEN [h0 EXCEPT !.head[src] = NULL, !.tail[src] = NULL]
        ELSE [h0 EXCEPT !.head[src] = NULL]

\* operator=(ForwardList&&), defaulted: head_ = std::move(other.head_) releases
\* the source's pointer, stores it and deletes the chain held before; then
\* tail_ = other.tail_.
move_assign_default(h, dst, src) ==
    LET t   == h.head[src]
        h1  == [h EXCEPT !.head[src] = NULL]
        old == h1.head[dst]
        h2  == DestroyChain([h1 EXCEPT !.head[dst] = t], old)
    IN  [h2 EXCEPT !.tail[dst] = h.tail[src]]

\* operator=(ForwardList&&) of part_000.
move_assign_p0(h, dst, src) ==
    IF dst # src
    THEN LET h0 == clear_p0(h, dst)
         IN  [h0 EXCEPT !.head[dst] = h0.head[src], !.tail[dst] = h0.tail[src],
                        !.head[src] = NULL, !.tail[src] = NULL]
    ELSE h

move_assign(h, dst, src) ==
    IF variant = "p0" THEN move_assign_p0(h, dst, src)
    ELSE move_assign_default(h, dst, src)

\* ~ForwardList(): clear() in part_000, the members' destructors otherwise.
destroy(h, l) ==
    LET h1 == IF variant = "p0" THEN clear_p0(h, l) ELSE DestroyChain(h, h.head[l])
    IN  [h1 EXCEPT !.head[l] = NULL, !.tail[l] = NULL, !.live[l] = FALSE]

\* --------------------------------------------------------------- the machine
NoLog == <<0>>

Install(h) ==
    /\ live' = h.live
    /\ head' = h.head
    /\ tail' = h.tail
    /\ next' = h.next
    /\ data' = h.data
    /\ alive' = h.alive
    /\ brk' = h.brk

\* The record of one call: the member function, the list it ran on, the other
\* list of a copy or move, the value passed (for remove(pos): the value pos
\* denoted), what it returned and whether it threw.
\* freed: how many nodes the call deleted.
\* cut: the call was a remove that deleted the last node of its list.
\* afterCut: the call directly before was such a remove on the same list.
\* dbl, uaf: what the call noted (see Cur).
Call(op, l, src, v, ret, threw, h) ==
    [op |-> op, l |-> l, src |-> src, v |-> v, ret |-> ret, threw |-> threw,
     freed |-> Cardinality(alive \ h.alive),
     dbl |-> h.dbl,
     uaf |-> h.uaf,
     cut |-> /\ op \in {"remove", "remove_at"}
             /\ h.alive # alive
             /\ tail[l] \notin h.alive,
     afterCut |-> /\ last.cut
                  /\ last.l = l]

\* main()'s list; it lives for the whole run.
Main == "A"

\* Lists constructed from it and destroyed again.
Temps == Lists \ {Main}

Init ==
    /\ variant \in Variants
    /\ live = [l \in Lists |-> l = Main]
    /\ head = [l \in Lists |-> NULL]
    /\ tail = [l \in Lists |-> NULL]
    /\ next = [n \in Addr |-> NULL]
    /\ data = [n \in Addr |-> 0]
    /\ alive = {}
    /\ brk = 0
    /\ pushed = [l \in Lists |-> IF l = Main THEN << >> ELSE NoLog]
    /\ last = [op |-> "init", l |-> Main, src |-> Main, v |-> 0,
               ret |-> FALSE, threw |-> FALSE, freed |-> 0,
               dbl |-> FALSE, uaf |-> FALSE,
               cut |-> FALSE, afterCut |-> FALSE]

\* ForwardList l;
Construct(l) ==
    /\ ~live[l]
    /\ Install([Cur EXCEPT !.live[l] = TRUE, !.head[l] = NULL, !.tail[l] = NULL])
    /\ pushed' = [pushed EXCEPT ![l] = << >>]
    /\ last' = Call("construct", l, l, 0, FALSE, FALSE, Cur)
    /\ UNCHANGED variant

\* l goes out of scope.
Destroy(l) ==
    /\ live[l]
    /\ LET h == destroy(Cur, l)
       IN  /\ Install(h)
           /\ last' = Call("destroy", l, l, 0, FALSE, FALSE, h)
    /\ pushed' = [pushed EXCEPT ![l] = NoLog]
    /\ UNCHANGED variant

\* l.push_back(v); ok: the allocator has memory to give.
PushBack(l, v, ok) ==
    /\ live[l]
    /\ LET r == call_push_back(Cur, l, v, ok)
       IN  /\ Install(r.h)
           /\ last' = Call("push_back", l, l, v, FALSE, r.threw, r.h)
           /\ pushed' = [pushed EXCEPT
                           ![l] = IF @ = NoLog \/ r.threw THEN @ ELSE Append(@, v)]
    /\ UNCHANGED variant

\* l.remove(v) with an object of the caller's.
Remove(l, v) ==
    /\ live[l]
    /\ LET r == remove(Cur, l, ByValue(v))
       IN  /\ Install(r.h)
           /\ last' = Call("remove", l, l, v, r.ret, FALSE, r.h)
    /\ pushed' = [pushed EXCEPT ![l] = NoLog]
    /\ UNCHANGED variant

\* The nodes of l behind pos: those compared after pos's node is deleted.
Behind(h, l, pos) ==
    LET c == Chain(h, l)
    IN  {c[i] : i \in {j \in DOMAIN c : \E k \in DOMAIN c : k < j /\ c[k] = pos}}

\* l.remove(pos), pos being end() or an iterator to a node of l (part_001 has
\* no such overload).
RemoveAt(l) ==
    /\ live[l]
    /\ variant # "p1"
    /\ \E pos \in Nodes(Cur, l) \cup {end} :
       \E junk \in SUBSET Behind(Cur, l, pos) :
          LET r == remove_at(Cur, l, pos, junk)
          IN  /\ Install(r.h)
              /\ last' = Call("remove_at", l, l,
                              IF pos = end THEN 0 ELSE deref(Cur, pos),
                              r.ret, FALSE, r.h)
    /\ pushed' = [pushed EXCEPT ![l] = NoLog]
    /\ UNCHANGED variant

\* l.clear()
Clear(l) ==
    /\ live[l]
    /\ LET h == clear(Cur, l)
       IN  /\ Install(h)
           /\ last' = Call("clear", l, l, 0, FALSE, FALSE, h)
    /\ pushed' = [pushed EXCEPT ![l] = NoLog]
    /\ UNCHANGED variant

\* l.contains(v): a const member, it reads the chain and writes nothing
\* (part_000 has no contains).
Contains(l, v) ==
    /\ live[l]
    /\ variant # "p0"
    /\ Install(Cur)
    /\ last' = Call("contains", l, l, v, contains(Cur, l, v), FALSE, Cur)
    /\ UNCHANGED <<pushed, variant>>

\* ForwardList dst(src);
CopyConstruct(dst, src) ==
    /\ ~live[dst] /\ live[src]
    /\ \E budget \in 0..Len(Chain(Cur, src)) :
       LET r == copy_construct(Cur, dst, src, budget)
       IN  /\ Install(r.h)
           /\ last' = Call("copy_construct", dst, src, 0, FALSE, r.threw, r.h)
    /\ pushed' = [pushed EXCEPT ![dst] = NoLog]
    /\ UNCHANGED variant

\* dst = src;
CopyAssign(dst, src) ==
    /\ live[dst] /\ live[src]
    /\ \E budget \in 0..Len(Chain(Cur, src)) :
       LET r == copy_assign(Cur, dst, src, budget)
       IN  /\ Install(r.h)
           /\ last' = Call("copy_assign", dst, src, 0, FALSE, r.threw, r.h)
    /\ pushed' = [pushed EXCEPT ![dst] = NoLog]
    /\ UNCHANGED variant

\* ForwardList dst(std::move(src));
MoveConstruct(dst, src) ==
    /\ ~live[dst] /\ live[src]
    /\ LET h == move_construct(Cur, dst, src)
       IN  /\ Install(h)
           /\ last' = Call("move_construct", dst, src, 0, FALSE, FALSE, h)
    /\ pushed' = [pushed EXCEPT ![dst] = NoLog, ![src] = NoLog]
    /\ UNCHANGED variant

\* dst = std::move(src);
MoveAssign(dst, src) ==
    /\ live[dst] /\ live[src]
    /\ LET h == move_assign(Cur, dst, src)
       IN  /\ Install(h)
           /\ last' = Call("move_assign", dst, src, 0, FALSE, FALSE, h)
    /\ pushed' = [pushed EXCEPT ![dst] = NoLog, ![src] = NoLog]
    /\ UNCHANGED variant

\* One list, the operations of its own.
NextOne ==
    \/ \E v \in Val, ok \in BOOLEAN : PushBack(Main, v, ok)
    \/ \E v \in Val : Remove(Main, v)
    \/ RemoveAt(Main)
    \/ Clear(Main)
    \/ \E v \in Val : Contains(Main, v)

SpecOne == Init /\ [][NextOne]_vars

\* Two lists, with copies and moves between them.
Next ==
    \/ \E l \in Temps : Construct(l)
    \/ \E l \in Temps : Destroy(l)
    \/ \E l \in Lists, v \in Val, ok \in BOOLEAN : PushBack(l, v, ok)
    \/ \E l \in Lists, v \in Val : Remove(l, v)
    \/ \E l \in Lists : RemoveAt(l)
    \/ \E l \in Lists : Clear(l)
    \/ \E l \in Lists, v \in Val : Contains(l, v)
    \/ \E dst \in Temps, src \in Lists : CopyConstruct(dst, src)
    \/ \E dst \in Lists, src \in Lists : CopyAssign(dst, src)
    \/ \E dst \in Temps, src \in Lists : MoveConstruct(dst, src)
    \/ \E dst \in Lists, src \in Lists : MoveAssign(dst, src)

Spec == Init /\ [][Next]_vars

\* ------------------------------------------------------------ what is claimed
\* s without every element equal to v.
Filter(s, v) == SelectSeq(s, LAMBDA x : x # v)

\* s without its first element equal to v.
RECURSIVE DropFirst(_, _)
DropFirst(s, v) ==
    IF s = << >> THEN << >>
    ELSE IF Head(s) = v THEN Tail(s)
    ELSE <<Head(s)>> \o DropFirst(Tail(s), v)

\* The state after the step, as Cur is the state before it.
Post == Cur'

\* C1: after push_back calls with v1..vn on an initially empty list, and
\* nothing else, iterating from begin() visits n nodes holding v1..vn in that
\* order and then reaches end().
C1_OrderPreserved ==
    \A l \in Lists :
        (live[l] /\ pushed[l] # NoLog) =>
            /\ Contents(Cur, l) = pushed[l]
            /\ Len(Chain(Cur, l)) = Len(pushed[l])
            /\ Len(Chain(Cur, l)) <= MaxNodes
            /\ (pushed[l] # << >> =>
                    incr(Cur, Chain(Cur, l)[Len(Chain(Cur, l))]) = end)

C1_Witness ==
    /\ last.op = "push_back"
    /\ ~last.threw
    /\ pushed[Main] = <<1, 2, 2, 1>>

C3_RemoveAtRemovesEveryMatch ==
    [][(last'.op = "remove_at" /\ last'.v # 0) =>
          Contents(Post, last'.l) = Filter(Contents(Cur, last'.l), last'.v)]_vars

\* C4 as stated: tail_ is null if and only if head_ is null, for every list
\* object, a moved-from one included.
C4_TailNullIffHeadNull ==
    \A l \in Lists : live[l] => (tail[l] = NULL <=> head[l] = NULL)

\* C5: after any sequence of push_back, remove and clear, a non-empty list's
\* chain is finite and acyclic, all of its nodes are allocated, tail_ is the
\* last node reached from head_, and that node is the only one of the chain
\* with no next link.
C5_TailIsLastNode ==
    \A l \in Lists :
        (live[l] /\ head[l] # NULL) =>
            LET c == Chain(Cur, l)
            IN  /\ Len(c) <= MaxNodes
                /\ \A i, j \in DOMAIN c : c[i] = c[j] => i = j
                /\ \A i \in DOMAIN c : c[i] \in alive
                /\ tail[l] = c[Len(c)]
                /\ \A i \in DOMAIN c : next[c[i]] = NULL <=> i = Len(c)

\* A remove has just deleted the last node of a list and left others behind.
C5_Witness ==
    /\ last.op \in {"remove", "remove_at"}
    /\ last.cut
    /\ Len(Chain(Cur, Main)) >= 2

\* C6 as stated: after moving src into another list dst, by construction or
\* by assignment, src has head_ and tail_ null and dst holds what src held, in
\* the same order.
C6_MoveEmptiesSource ==
    [][(last'.op \in {"move_construct", "move_assign"} /\ last'.l # last'.src) =>
          /\ head'[last'.src] = NULL
          /\ tail'[last'.src] = NULL
          /\ Contents(Post, last'.l) = Contents(Cur, last'.src)]_vars

\* C7: a copy that completes, by construction or by assignment, leaves dst
\* with the elements of src in the same order and src as it was; two lists
\* never have a node in common; and push_back, remove and clear on one list
\* leave what the other list holds unchanged.
C7_CopyIsIndependent ==
    [][LET c  == last'
           l  == c.l
           m  == CHOOSE x \in Lists : x # l
       IN  /\ (c.op \in {"copy_construct", "copy_assign"} /\ ~c.threw /\ c.src # l) =>
                  /\ Contents(Post, l) = Contents(Cur, c.src)
                  /\ Contents(Post, c.src) = Contents(Cur, c.src)
           /\ (live'[l] /\ live'[m]) => Nodes(Post, l) \cap Nodes(Post, m) = {}
           /\ (c.op \in {"push_back", "remove", "remove_at", "clear"} /\ live[m]) =>
                  Contents(Post, m) = Contents(Cur, m)]_vars

\* B has just been assigned a copy of A = [1] over two elements of its own.
C7_Witness ==
    /\ last.op = "copy_assign"
    /\ ~last.threw
    /\ last.l = "B"
    /\ last.src = Main
    /\ last.freed = 2
    /\ Contents(Cur, Main) = <<1>>
    /\ Contents(Cur, "B") = <<1>>

\* C8: a push_back(v) that directly follows a remove which deleted the last
\* node of the list yields the surviving elements followed by v; tail_ is the
\* new node, which ends the chain, and head_ is the new node too when the
\* remove had emptied the list.
C8_AppendAfterTailRemoval ==
    [][(last'.op = "push_back" /\ ~last'.threw /\ last'.afterCut) =>
          LET l == last'.l
              c == Chain(Post, l)
          IN  /\ Contents(Post, l) = Append(Contents(Cur, l), last'.v)
              /\ tail'[l] = brk'
              /\ tail'[l] \notin alive
              /\ c[Len(c)] = tail'[l]
              /\ next'[tail'[l]] = NULL
              /\ (Contents(Cur, l) = << >> => head'[l] = tail'[l])]_vars

\* A push_back has just followed a remove that deleted the tail element and
\* left another one.
C8_Witness ==
    /\ last.op = "push_back"
    /\ ~last.threw
    /\ last.afterCut
    /\ Len(Contents(Cur, Main)) = 2

C10_FailedCopyKeepsDestination ==
    [][(last'.op \in {"copy_construct", "copy_assign"} /\ last'.threw) =>
          /\ live'[last'.l] = live[last'.l]
          /\ Contents(Post, last'.l) = Contents(Cur, last'.l)]_vars

\* C11: a push_back whose allocation fails leaves everything as it was: the
\* same head_ and tail_, the same nodes with the same links and values, and
\* nothing allocated.
C11_FailedPushBackChangesNothing ==
    [][(last'.op = "push_back" /\ last'.threw) =>
          /\ Post = Cur
          /\ Contents(Post, last'.l) = Contents(Cur, last'.l)]_vars

\* A push_back has just failed on a list of two elements.
C11_Witness ==
    /\ last.op = "push_back"
    /\ last.threw
    /\ Len(Contents(Cur, Main)) = 2
    /\ brk < MaxNodes

\* v is an element of s.
Has(s, v) == \E i \in DOMAIN s : s[i] = v

\* C12: remove(value) returns true exactly when an element equal to value was
\* in the list before the call; a true result means the list got shorter, a
\* false one that it holds what it held, and the call never throws.
C12_RemoveReportsErasure ==
    [][last'.op = "remove" =>
          LET before == Contents(Cur, last'.l)
              after  == Contents(Post, last'.l)
          IN  /\ last'.ret <=> Has(before, last'.v)
              /\ last'.ret => Len(after) < Len(before)
              /\ ~last'.ret => after = before
              /\ ~last'.threw]_vars

\* remove(2) has just returned true, having deleted the only element.
C12_Witness ==
    /\ last.op = "remove"
    /\ last.ret
    /\ last.v = 2
    /\ last.freed = 1
    /\ head[Main] = NULL
    /\ brk >= 2

\* C13 as stated: remove(value) with a value no element equals changes
\* nothing, on any list: head_ and tail_ are the same, and so are the nodes,
\* their links and their values.
C13_RemoveAbsentChangesNothing ==
    [][(last'.op = "remove" /\ ~Has(Contents(Cur, last'.l), last'.v)) =>
          /\ Post = Cur
          /\ Chain(Post, last'.l) = Chain(Cur, last'.l)
          /\ ~last'.ret]_vars

\* C14: a push_back that succeeds invalidates no iterator.  Every node an
\* iterator could denote before the call, in any list, is still allocated,
\* holds the same value and is a node of the same list; an iterator to a node
\* other than the old tail advances to where it advanced before; an iterator
\* to the old tail of the list pushed onto advances to the new node, which is
\* not the end position.
C14_PushBackKeepsIterators ==
    [][(last'.op = "push_back" /\ ~last'.threw) =>
          \A l \in Lists : live[l] =>
              LET c == Chain(Cur, l)
              IN  \A i \in DOMAIN c :
                      LET it == c[i]
                      IN  /\ it \in alive'
                          /\ deref(Post, it) = deref(Cur, it)
                          /\ Chain(Post, l)[i] = it
                          /\ (l = last'.l /\ i = Len(c))
                                => /\ incr(Post, it) = brk'
                                   /\ incr(Post, it) # end
                                   /\ deref(Post, incr(Post, it)) = last'.v
                          /\ ~(l = last'.l /\ i = Len(c))
                                => incr(Post, it) = incr(Cur, it)]_vars

\* A push_back has just appended a fourth node: an iterator that stood at the
\* third now advances to it.
C14_Witness ==
    /\ last.op = "push_back"
    /\ ~last.threw
    /\ Len(Chain(Cur, Main)) = 4
    /\ incr(Cur, Chain(Cur, Main)[3]) = tail[Main]
    /\ last.v = 2

\* C15: contains(value) returns true exactly when an element of the list
\* equals value, and leaves head_, tail_ and every node as they were.
C15_ContainsFindsEveryElement ==
    [][last'.op = "contains" =>
          /\ last'.ret <=> Has(Contents(Cur, last'.l), last'.v)
          /\ Post = Cur
          /\ ~last'.threw]_vars

\* contains(2) has just returned true on a list whose only 2 is its last
\* element.
C15_Witness ==
    /\ last.op = "contains"
    /\ last.ret
    /\ last.v = 2
    /\ Contents(Cur, Main) = <<1, 1, 2>>

\* C16: assigning a list to itself, by copy or by move, changes nothing: head_,
\* tail_, the nodes, their links and values are the same, no node is freed or
\* allocated, the call does not throw, and a non-empty list still ends at
\* tail_.
C16_SelfAssignmentChangesNothing ==
    [][(last'.op \in {"copy_assign", "move_assign"} /\ last'.l = last'.src) =>
          LET l == last'.l
              c == Chain(Post, l)
          IN  /\ Post = Cur
              /\ Contents(Post, l) = Contents(Cur, l)
              /\ last'.freed = 0
              /\ ~last'.threw
              /\ (head'[l] # NULL =>
                      /\ tail'[l] = c[Len(c)]
                      /\ next'[tail'[l]] = NULL
                      /\ \A i \in DOMAIN c : c[i] \in alive')]_vars

\* A list of two elements has just been copy-assigned to itself.
C16_Witness ==
    /\ last.op = "copy_assign"
    /\ last.l = last.src
    /\ Contents(Cur, last.l) = <<1, 2>>

\* A list of two elements has just been move-assigned to itself.
C16_WitnessMove ==
    /\ last.op = "move_assign"
    /\ last.l = last.src
    /\ Contents(Cur, last.l) = <<2, 1>>

\* C17: the end position is one value.  end() and a default-constructed
\* iterator are equal; begin() of an empty list equals them; so does an
\* iterator advanced off the last node of a list, reached by walking from
\* begin() or taken from tail_; in part_000 advancing the end position stays
\* there; and no iterator to a node equals any of them.
C17_EndIsUniform ==
    /\ iter_eq(end, default_iterator)
    /\ \A l \in Lists : live[l] =>
           LET c == Chain(Cur, l)
           IN  /\ (c = << >> => /\ iter_eq(begin(Cur, l), end)
                                /\ iter_eq(begin(Cur, l), default_iterator))
               /\ (c # << >> => /\ Len(c) <= MaxNodes
                                /\ iter_eq(incr(Cur, c[Len(c)]), end)
                                /\ iter_eq(incr(Cur, tail[l]), default_iterator)
                                /\ iter_eq(incr(Cur, c[Len(c)]), incr(Cur, tail[l])))
               /\ (variant = "p0" => iter_eq(incr(Cur, end), end))
               /\ \A i \in DOMAIN c : /\ ~iter_eq(c[i], end)
                                       /\ ~iter_eq(c[i], default_iterator)
                                       /\ c[i] \in alive

\* One list holds three elements next to an empty one.
C17_Witness ==
    /\ live["B"]
    /\ head["B"] = NULL
    /\ Len(Chain(Cur, Main)) = 3
    /\ last.op = "remove"

\* The live lists whose chain reaches node n.
Owners(n) == {l \in Lists : live[l] /\ n \in Nodes(Cur, l)}

\* C18 as stated: in the raw-pointer list (part_000) every node allocated so
\* far is either in the chain of exactly one list and not freed, or freed and
\* in no chain; no call frees a node twice.
C18_EveryNodeOwnedOnceOrFreed ==
    variant = "p0" =>
        /\ ~last.dbl
        /\ \A n \in 1..brk :
               IF n \in alive
               THEN Cardinality(Owners(n)) = 1
               ELSE Owners(n) = {}

\* C19 as stated: no remove(pos) reads the value it compares with from a node
\* that has been freed.
C19_RemoveAtReadsNoFreedNode ==
    last.op = "remove_at" => ~last.uaf

=============================================================================
